---- MODULE Spec2Model ----
(***************************************************************************)
(* Model of the spawn command of gastown (internal/cmd/spawn.go).          *)
(*                                                                         *)
(* Strings are sequences of tokens: a pool name, the rig name, "/" and     *)
(* each decimal digit are one token each, so that splitting an address     *)
(* and appending a numeric suffix are computed on the text itself.         *)
(*                                                                         *)
(* The polecat manager, the session manager, the rig manager and the       *)
(* workspace lookup are packages of the repository whose code is not in    *)
(* spawn.go; their operations (Mgr.., Sess..) are modelled from the        *)
(* specification's state machine (sections 3, 4.3 and 4.5).                *)
(***************************************************************************)
EXTENDS Integers, Sequences, FiniteSets, TLC

\* ------------------------------------------------------------------ bounds
\* Number of entries of polecatNames the model keeps in the pool.
PoolSize == 2
\* Largest numeric suffix of a name an exclusion set may hold initially.
MaxSuffix == 3
\* Number of spawn commands run one after the other.
MaxSpawns == 2
\* Largest reading of the wall clock, in seconds.
MaxTime == 1
\* Longest address, in tokens, given to the parser on its own.
MaxAddrLen == 4

\* ------------------------------------------------------------- text helpers
\* polecatNames (spawn.go:25-29)
polecatNames ==
  << "Nux", "Toast", "Capable", "Cheedo", "Dag", "Rictus", "Slit", "Morsov",
     "Ace", "Coma", "Valkyrie", "Keeper", "Vuvalini", "Organic", "Immortan",
     "Corpus", "Doof", "Scabrous", "Splendid", "Fragile" >>

\* The pool entries the model keeps, each as a one-token string.
Pool == [k \in 1..PoolSize |-> << polecatNames[k] >>]

PoolNames == {Pool[k] : k \in 1..PoolSize}

DigitChar == << "0", "1", "2", "3", "4", "5", "6", "7", "8", "9" >>

\* %d of fmt.Sprintf: the decimal digits of n >= 0, most significant first.
RECURSIVE Itoa(_)
Itoa(n) == IF n < 10 THEN << DigitChar[n + 1] >>
           ELSE Itoa(n \div 10) \o << DigitChar[(n % 10) + 1] >>

\* fmt.Sprintf("%s%d", base, i) (spawn.go:247)
SuffixedName(base, i) == base \o Itoa(i)

\* strings.Contains(addr, "/") (spawn.go:212)
ContainsSep(addr) == \E k \in 1..Len(addr) : addr[k] = "/"

\* Mutant: the address cut at its last separator.
LastSep(addr) == CHOOSE k \in 1..Len(addr) :
                   /\ addr[k] = "/"
                   /\ \A j \in (k + 1)..Len(addr) : addr[j] # "/"

\* Index of the first separator of addr; strings.SplitN(addr, "/", 2) cuts there.
FirstSep(addr) == CHOOSE k \in 1..Len(addr) :
                    /\ addr[k] = "/"
                    /\ \A j \in 1..(k - 1) : addr[j] # "/"

\* parseSpawnAddress (spawn.go:211-220): [rigName, polecatName, err].
parseSpawnAddress(addr) ==
  IF ContainsSep(addr)
  THEN LET k == FirstSep(addr)
           rigPart == SubSeq(addr, 1, k - 1)
           catPart == SubSeq(addr, k + 1, Len(addr))
       IN IF rigPart = << >>
          THEN [rigName |-> << >>, polecatName |-> << >>, err |-> "InvalidAddress"]
          ELSE [rigName |-> rigPart, polecatName |-> catPart, err |-> "nil"]
  ELSE [rigName |-> addr, polecatName |-> << >>, err |-> "nil"]

\* ----------------------------------------------------------- context builder
\* %d of fmt.Sprintf for any integer.
FormatInt(n) == IF n < 0 THEN << "-" >> \o Itoa(0 - n) ELSE Itoa(n)

Banner == << "[SPAWN] You have been assigned work.", "\n", "\n" >>

Closing ==
  << "\n",
     "Work on this task. When complete, commit your changes and signal DONE.",
     "\n" >>

\* Mutant: the description block written whether or not there is a description.
buildSpawnContextAlwaysDescription(iss, message) ==
  Banner
  \o (IF iss # << >>
      THEN << "Issue: " >> \o iss[1].ID \o << "\n" >>
           \o << "Title: " >> \o iss[1].Title \o << "\n" >>
           \o << "Priority: P" >> \o FormatInt(iss[1].Priority) \o << "\n" >>
           \o << "Type: " >> \o iss[1].Type \o << "\n" >>
           \o << "\n", "Description:", "\n" >> \o iss[1].Description \o << "\n" >>
      ELSE IF message # << >>
      THEN << "Task: " >> \o message \o << "\n" >>
      ELSE << >>)
  \o Closing

\* buildSpawnContext (spawn.go:303-323); iss is << >> for a nil issue and
\* << record >> otherwise. The text is a sequence of tokens, "\n" one of them.
buildSpawnContext(iss, message) ==
  Banner
  \o (IF iss # << >>
      THEN << "Issue: " >> \o iss[1].ID \o << "\n" >>
           \o << "Title: " >> \o iss[1].Title \o << "\n" >>
           \o << "Priority: P" >> \o FormatInt(iss[1].Priority) \o << "\n" >>
           \o << "Type: " >> \o iss[1].Type \o << "\n" >>
           \o (IF iss[1].Description # << >>
               THEN << "\n", "Description:", "\n" >>
                    \o iss[1].Description \o << "\n" >>
               ELSE << >>)
      ELSE IF message # << >>
      THEN << "Task: " >> \o message \o << "\n" >>
      ELSE << >>)
  \o Closing

\* ------------------------------------------------------------ name generator
\* The suffix probe of generatePolecatName (spawn.go:245-251) as a function.
RECURSIVE ProbeSuffix(_, _, _)
ProbeSuffix(base, i, existing) ==
  IF SuffixedName(base, i) \notin existing
  THEN SuffixedName(base, i)
  ELSE ProbeSuffix(base, i + 1, existing)

\* generatePolecatName (spawn.go:223-252) for exclusion set `existing` and
\* shuffle result `order`.
generatePolecatName(existing, order) ==
  LET unused == {k \in 1..Len(order) : order[k] \notin existing}
  IN IF unused # {}
     THEN order[CHOOSE k \in unused : \A j \in unused : k <= j]
     ELSE ProbeSuffix(order[1], 2, existing)

\* Every order rand.Shuffle can leave the pool in (spawn.go:232-236).
Shuffles == {s \in [1..PoolSize -> PoolNames] :
               \A a, b \in 1..PoolSize : a # b => s[a] # s[b]}

\* ------------------------------------------------------------------- state
\* Invocations of the command: the sequential specification runs them one
\* after the other as process 1; the race specification runs one on each.
Procs == {1, 2}

VARIABLES
  workers,       \* worker registry of the rig: name -> [State, Issue, Checkout]
  sessions,      \* names whose session is running
  nextCheckout,  \* number the next created checkout gets
  now,           \* last reading of the wall clock (seconds)
  spawns,        \* commands begun so far
  pc,            \* per invocation: the statement of runSpawn it is at
  args,          \* per invocation: [addr, issue, message, noStart]
  rigName,       \* per invocation: rig part of the address
  polecatName,   \* per invocation: worker name (parsed or generated)
  generated,     \* per invocation: whether polecatName was generated
  seen,          \* per invocation: record Get returned (line 119)
  created,       \* per invocation: record Add returned (line 136)
  beadsInit,     \* per invocation: outcome of initBeadsInWorktree
  issue,         \* per invocation: record fetchBeadsIssue returned
  assignmentID,  \* per invocation: identifier handed to AssignIssue
  running,       \* per invocation: what IsRunning reported
  err,           \* per invocation: error runSpawn returned
  calls,         \* per invocation: external operations invoked, in order
  context,       \* per invocation: text built for the session (line 197)
  gpc,           \* generator run: position in generatePolecatName
  existingNames, \* generator run: exclusion set built from List
  shuffled,      \* generator run: pool after rand.Shuffle
  gk,            \* generator run: index of the pool scan
  gi,            \* generator run: numeric suffix being probed
  gname,         \* generator run: name returned
  ppc,           \* parser run: position in parseSpawnAddress
  paddr,         \* parser run: the address given
  pres,          \* parser run: [rigName, polecatName, err] returned
  cpc,           \* context builder run: position in buildSpawnContext
  cissue,        \* context builder run: the issue, << >> when nil
  cmessage,      \* context builder run: the message
  ctext          \* context builder run: text returned

shared == << workers, sessions, nextCheckout, now, spawns >>
locals == << pc, args, rigName, polecatName, generated, seen, created,
             beadsInit, issue, assignmentID, running, err, calls, context >>
genVars == << gpc, existingNames, shuffled, gk, gi, gname >>
parseVars == << ppc, paddr, pres >>
ctxVars == << cpc, cissue, cmessage, ctext >>
fnVars == << parseVars, ctxVars >>
vars == << shared, locals, genVars, fnVars >>

\* Worker lifecycle states (polecat.State; spec section 4.3). Absent is a
\* name outside DOMAIN workers.
StateIdle == "idle"
StateWorking == "working"

NoPolecat == [State |-> "none", Issue |-> << >>, Checkout |-> 0]
NoIssue == [ID |-> << >>, Title |-> << >>, Description |-> << >>,
            Priority |-> 0, Type |-> << >>]
NoErr == [kind |-> "nil", on |-> << >>]
Error(k) == [kind |-> k, on |-> << >>]

\* The rig of the workspace and the names the commands address.
TheRig == << "gastown" >>
Rigs == {TheRig}
Nux == Pool[1]

\* ------------------------------------- polecat and session manager operations
\* polecat.Manager.Get: the record, found only if the name is known.
MgrExists(w, name) == name \in DOMAIN w

\* polecat.Manager.List, names only.
MgrList(w) == DOMAIN w

\* polecat.Manager.Remove(name, force=true): checkout and record destroyed.
MgrRemove(w, name) == [n \in (DOMAIN w) \ {name} |-> w[n]]

\* polecat.Manager.Add: a fresh checkout and a record in Idle state.
MgrAdd(w, name, checkout) ==
  [n \in (DOMAIN w) \cup {name} |->
     IF n = name
     THEN [State |-> StateIdle, Issue |-> << >>, Checkout |-> checkout]
     ELSE w[n]]

\* polecat.Manager.AssignIssue: attaches the identifier, state becomes Working.
MgrAssignIssue(w, name, id) ==
  [w EXCEPT ![name] = [@ EXCEPT !.State = StateWorking, !.Issue = id]]

\* session.Manager.IsRunning
SessIsRunning(s, name) == name \in s

\* session.Manager.Start
SessStart(s, name) == s \cup {name}

\* -------------------------------------------------------------------- inputs
IssueIDs == {<< "gt-1" >>}
Messages == {<< "m" >>}

\* Addresses given on the command line: rig only, rig/worker, an address with
\* an empty rig part, and a rig the workspace does not have.
Addresses == { TheRig,
               TheRig \o << "/" >> \o Nux,
               << "/" >> \o Nux,
               << "nope" >> }

SpawnArgs == [addr : Addresses,
              issue : IssueIDs \cup {<< >>},
              message : Messages \cup {<< >>},
              noStart : BOOLEAN]

\* Two commands addressing the same rig and worker name.
RaceArgs == {a \in SpawnArgs : a.addr = TheRig \o << "/" >> \o Nux}

\* Registries a command can find: the addressed worker absent, idle or
\* working on an earlier assignment, its session running or not.
InitWorkers ==
  { << >>,
    (Nux :> [State |-> StateIdle, Issue |-> << >>, Checkout |-> 0]),
    (Nux :> [State |-> StateWorking, Issue |-> << "gt-0" >>, Checkout |-> 0]) }

InitShared ==
  /\ workers \in InitWorkers
  /\ sessions \in {{}, {Nux}}
  /\ nextCheckout = 1
  /\ now = 0
  /\ spawns = 0

InitLocals ==
  /\ pc = [p \in Procs |-> "idle"]
  /\ args = [p \in Procs |-> [addr |-> << >>, issue |-> << >>,
                              message |-> << >>, noStart |-> FALSE]]
  /\ rigName = [p \in Procs |-> << >>]
  /\ polecatName = [p \in Procs |-> << >>]
  /\ generated = [p \in Procs |-> FALSE]
  /\ seen = [p \in Procs |-> NoPolecat]
  /\ created = [p \in Procs |-> NoPolecat]
  /\ beadsInit = [p \in Procs |-> "none"]
  /\ issue = [p \in Procs |-> NoIssue]
  /\ assignmentID = [p \in Procs |-> << >>]
  /\ running = [p \in Procs |-> FALSE]
  /\ err = [p \in Procs |-> NoErr]
  /\ calls = [p \in Procs |-> << >>]
  /\ context = [p \in Procs |-> << >>]

GenIdle ==
  /\ gpc = "off"
  /\ existingNames = {}
  /\ shuffled = Pool
  /\ gk = 0
  /\ gi = 0
  /\ gname = << >>

\* No run of parseSpawnAddress on its own is under way.
ParseIdle ==
  /\ ppc = "off"
  /\ paddr = << >>
  /\ pres = [rigName |-> << >>, polecatName |-> << >>, err |-> "nil"]

\* No run of buildSpawnContext on its own is under way.
CtxIdle ==
  /\ cpc = "off"
  /\ cissue = << >>
  /\ cmessage = << >>
  /\ ctext = << >>

FnIdle == ParseIdle /\ CtxIdle

Init == InitShared /\ InitLocals /\ GenIdle /\ FnIdle

\* ------------------------------------------------------------------ runSpawn
\* return of runSpawn with error e (nil on success)
Return(p, e) ==
  /\ pc' = [pc EXCEPT ![p] = "done"]
  /\ err' = [err EXCEPT ![p] = e]

Goto(p, label) ==
  /\ pc' = [pc EXCEPT ![p] = label]
  /\ UNCHANGED err

Call(p, ops) == calls' = [calls EXCEPT ![p] = @ \o ops]

\* Mutant: the message test of line 78 inverted.
MissingAssignmentInverted(a) == a.issue = << >> /\ a.message # << >>

\* spawn.go:78: neither --issue nor --message given
MissingAssignment(a) == a.issue = << >> /\ a.message = << >>

\* spawn.go:77-86: flag validation and address parse of a new invocation.
Begin(p, a) ==
  /\ pc[p] \in {"idle", "done"}
  /\ spawns' = spawns + 1
  /\ args' = [args EXCEPT ![p] = a]
  /\ generated' = [generated EXCEPT ![p] = FALSE]
  /\ seen' = [seen EXCEPT ![p] = NoPolecat]
  /\ created' = [created EXCEPT ![p] = NoPolecat]
  /\ beadsInit' = [beadsInit EXCEPT ![p] = "none"]
  /\ issue' = [issue EXCEPT ![p] = NoIssue]
  /\ assignmentID' = [assignmentID EXCEPT ![p] = << >>]
  /\ running' = [running EXCEPT ![p] = FALSE]
  /\ calls' = [calls EXCEPT ![p] = << >>]
  /\ context' = [context EXCEPT ![p] = << >>]
  /\ IF MissingAssignment(a)
     THEN /\ Return(p, Error("MissingAssignment"))
          /\ rigName' = [rigName EXCEPT ![p] = << >>]
          /\ polecatName' = [polecatName EXCEPT ![p] = << >>]
     ELSE LET r == parseSpawnAddress(a.addr)
          IN /\ rigName' = [rigName EXCEPT ![p] = r.rigName]
             /\ polecatName' = [polecatName EXCEPT ![p] = r.polecatName]
             /\ IF r.err # "nil"
                THEN Return(p, Error(r.err))
                ELSE /\ pc' = [pc EXCEPT ![p] = "resolveRig"]
                     /\ err' = [err EXCEPT ![p] = NoErr]
  /\ UNCHANGED << workers, sessions, nextCheckout, now, genVars, fnVars >>

\* spawn.go:88-109: workspace lookup and rig lookup.
ResolveRig(p) ==
  /\ pc[p] = "resolveRig"
  /\ \E found \in BOOLEAN :
       IF ~found
       THEN /\ Call(p, << "FindWorkspace" >>)
            /\ Return(p, Error("NotInWorkspace"))
       ELSE /\ Call(p, << "FindWorkspace", "GetRig" >>)
            /\ IF rigName[p] \notin Rigs
               THEN Return(p, Error("RigNotFound"))
               ELSE Goto(p, IF polecatName[p] = << >> THEN "generate" ELSE "get")
  /\ UNCHANGED << shared, args, rigName, polecatName, generated, seen, created,
                  beadsInit, issue, assignmentID, running, context,
                  genVars, fnVars >>

\* spawn.go:113-116 with generatePolecatName (223-252): List's error is
\* discarded (line 224), leaving the exclusion set empty.
GenerateName(p) ==
  /\ pc[p] = "generate"
  /\ \E listed \in BOOLEAN, order \in Shuffles :
       LET existing == IF listed THEN MgrList(workers) ELSE {}
       IN polecatName' = [polecatName EXCEPT
                            ![p] = generatePolecatName(existing, order)]
  /\ generated' = [generated EXCEPT ![p] = TRUE]
  /\ Call(p, << "List" >>)
  /\ Goto(p, "get")
  /\ UNCHANGED << shared, args, rigName, seen, created, beadsInit, issue,
                  assignmentID, running, context,
                  genVars, fnVars >>

\* Mutant: the state test of line 122 made against the idle state.
IsWorkingWrongState(rec) == rec.State = StateIdle

\* spawn.go:122: pc.State == polecat.StateWorking
IsWorking(rec) == rec.State = StateWorking

\* spawn.go:118-132: existence check and the working-protection branch.
GetPolecat(p) ==
  /\ pc[p] = "get"
  /\ Call(p, << "Get" >>)
  /\ \E ok \in BOOLEAN :
       IF ~ok
       THEN /\ Return(p, Error("CheckingPolecat"))
            /\ UNCHANGED seen
       ELSE IF MgrExists(workers, polecatName[p])
       THEN /\ seen' = [seen EXCEPT ![p] = workers[polecatName[p]]]
            /\ IF IsWorking(workers[polecatName[p]])
               THEN Return(p, [kind |-> "WorkerBusy",
                               on |-> workers[polecatName[p]].Issue])
               ELSE Goto(p, "remove")
       ELSE /\ UNCHANGED seen
            /\ Goto(p, "add")
  /\ UNCHANGED << shared, args, rigName, polecatName, generated, created,
                  beadsInit, issue, assignmentID, running, context,
                  genVars, fnVars >>

\* spawn.go:125-129: the stale worker is removed with force.
RemoveStale(p) ==
  /\ pc[p] = "remove"
  /\ Call(p, << "Remove" >>)
  /\ \E ok \in BOOLEAN :
       IF ok /\ MgrExists(workers, polecatName[p])
       THEN /\ workers' = MgrRemove(workers, polecatName[p])
            /\ Goto(p, "add")
       ELSE /\ UNCHANGED workers
            /\ Return(p, Error("RemoveFailed"))
  /\ UNCHANGED << sessions, nextCheckout, now, spawns, args, rigName,
                  polecatName, generated, seen, created, beadsInit, issue,
                  assignmentID, running, context,
                  genVars, fnVars >>

\* Mutant: the error of Add is not returned; the command goes on.
AddPolecatIgnoreError(p) ==
  /\ pc[p] = "add"
  /\ Call(p, << "Create" >>)
  /\ \E ok \in BOOLEAN :
       IF ok /\ ~MgrExists(workers, polecatName[p])
       THEN /\ workers' = MgrAdd(workers, polecatName[p], nextCheckout)
            /\ created' = [created EXCEPT ![p] = workers'[polecatName[p]]]
            /\ nextCheckout' = nextCheckout + 1
            /\ Goto(p, "initBeads")
       ELSE /\ UNCHANGED << workers, created, nextCheckout >>
            /\ Goto(p, "initBeads")
  /\ UNCHANGED << sessions, now, spawns, args, rigName, polecatName, generated,
                  seen, beadsInit, issue, assignmentID, running, context,
                  genVars, fnVars >>

\* spawn.go:134-139: fresh worker with a new checkout from main.
AddPolecat(p) ==
  /\ pc[p] = "add"
  /\ Call(p, << "Create" >>)
  /\ \E ok \in BOOLEAN :
       IF ok /\ ~MgrExists(workers, polecatName[p])
       THEN /\ workers' = MgrAdd(workers, polecatName[p], nextCheckout)
            /\ created' = [created EXCEPT ![p] = workers'[polecatName[p]]]
            /\ nextCheckout' = nextCheckout + 1
            /\ Goto(p, "initBeads")
       ELSE /\ UNCHANGED << workers, created, nextCheckout >>
            /\ Return(p, Error("CreateFailed"))
  /\ UNCHANGED << sessions, now, spawns, args, rigName, polecatName, generated,
                  seen, beadsInit, issue, assignmentID, running, context,
                  genVars, fnVars >>

\* Mutant: the issue is never fetched.
AfterInitSkipFetch(a) == "assign"

\* spawn.go:150: the issue is fetched only if an id was given.
AfterInit(a) == IF a.issue # << >> THEN "fetch" ELSE "assign"

\* spawn.go:141-150: tracker initialisation in the checkout; failure is
\* only printed.
InitBeads(p) ==
  /\ pc[p] = "initBeads"
  /\ Call(p, << "InitBeads" >>)
  /\ \E ok \in BOOLEAN :
       beadsInit' = [beadsInit EXCEPT ![p] = IF ok THEN "ok" ELSE "failed"]
  /\ Goto(p, AfterInit(args[p]))
  /\ UNCHANGED << shared, args, rigName, polecatName, generated, seen, created,
                  issue, assignmentID, running, context,
                  genVars, fnVars >>

\* Record bd show returns for an identifier (first element of the array).
BeadsIssueOf(id) == [ID |-> id, Title |-> << "Fix" >>, Description |-> << >>,
                     Priority |-> 2, Type |-> << "bug" >>]

\* What running bd show can give: a failed run, or a payload that does not
\* parse, parses to an empty array, or parses to an array with the issue.
BdShowResults ==
  { [runErr |-> TRUE, payload |-> "none"],
    [runErr |-> FALSE, payload |-> "garbage"],
    [runErr |-> FALSE, payload |-> "empty"],
    [runErr |-> FALSE, payload |-> "one"] }

\* Mutant: the empty-array test of line 295 dropped; no issue and no error.
fetchBeadsIssueNoEmptyTest(res, id) ==
  IF res.runErr THEN [issue |-> NoIssue, err |-> "IssueFetchFailed"]
  ELSE IF res.payload = "garbage"
  THEN [issue |-> NoIssue, err |-> "IssueParseFailed"]
  ELSE IF res.payload = "empty"
  THEN [issue |-> NoIssue, err |-> "nil"]
  ELSE [issue |-> BeadsIssueOf(id), err |-> "nil"]

\* fetchBeadsIssue (spawn.go:274-300) on the outcome res of the subprocess.
fetchBeadsIssue(res, id) ==
  IF res.runErr THEN [issue |-> NoIssue, err |-> "IssueFetchFailed"]
  ELSE IF res.payload = "garbage"
  THEN [issue |-> NoIssue, err |-> "IssueParseFailed"]
  ELSE IF res.payload = "empty"
  THEN [issue |-> NoIssue, err |-> "IssueNotFound"]
  ELSE [issue |-> BeadsIssueOf(id), err |-> "nil"]

\* spawn.go:148-155: the issue is fetched; a failure ends the command.
FetchIssue(p) ==
  /\ pc[p] = "fetch"
  /\ Call(p, << "Fetch" >>)
  /\ \E res \in BdShowResults :
       LET r == fetchBeadsIssue(res, args[p].issue)
       IN IF r.err = "nil"
          THEN /\ issue' = [issue EXCEPT ![p] = r.issue]
               /\ Goto(p, "assign")
          ELSE /\ UNCHANGED issue
               /\ Return(p, Error(r.err))
  /\ UNCHANGED << shared, args, rigName, polecatName, generated, seen, created,
                  beadsInit, assignmentID, running, context,
                  genVars, fnVars >>

\* "task:" + time.Now().Format(...) (spawn.go:160) for clock reading t
TaskID(t) == << "task:" >> \o Itoa(t)

\* Mutant: the synthetic identifier used whether or not an issue was given.
AssignmentIDAlwaysTask(a, t) == TaskID(t)

\* spawn.go:158-161: the issue id, or a synthetic task id when none was given.
AssignmentIDOf(a, t) == IF a.issue # << >> THEN a.issue ELSE TaskID(t)

\* Mutant: the --no-start test of line 171 dropped.
StopBeforeSessionNever(a) == FALSE

\* spawn.go:171: --no-start ends the command after the assignment.
StopBeforeSession(a) == a.noStart

\* spawn.go:157-174: assignment identifier, AssignIssue, --no-start return.
AssignIssue(p) ==
  /\ pc[p] = "assign"
  /\ Call(p, << "Assign" >>)
  /\ \E t \in now..MaxTime, ok \in BOOLEAN :
       LET id == AssignmentIDOf(args[p], t)
       IN /\ now' = IF args[p].issue # << >> THEN now ELSE t
          /\ assignmentID' = [assignmentID EXCEPT ![p] = id]
          /\ IF ok /\ MgrExists(workers, polecatName[p])
             THEN /\ workers' = MgrAssignIssue(workers, polecatName[p], id)
                  /\ IF StopBeforeSession(args[p])
                     THEN Return(p, NoErr)
                     ELSE Goto(p, "isRunning")
             ELSE /\ UNCHANGED workers
                  /\ Return(p, Error("AssignFailed"))
  /\ UNCHANGED << sessions, nextCheckout, spawns, args, rigName, polecatName,
                  generated, seen, created, beadsInit, issue, running, context,
                  genVars, fnVars >>

\* Mutant: the branches of line 182 swapped.
AfterLivenessSwapped(r) == IF r THEN "start" ELSE "inject"

\* spawn.go:182-185: a running session is reused, otherwise one is started.
AfterLiveness(r) == IF r THEN "inject" ELSE "start"

\* spawn.go:176-182: liveness query; its error is discarded.
IsRunning(p) ==
  /\ pc[p] = "isRunning"
  /\ Call(p, << "IsRunning" >>)
  /\ \E ok \in BOOLEAN :
       LET r == ok /\ SessIsRunning(sessions, polecatName[p])
       IN /\ running' = [running EXCEPT ![p] = r]
          /\ Goto(p, AfterLiveness(r))
  /\ UNCHANGED << shared, args, rigName, polecatName, generated, seen, created,
                  beadsInit, issue, assignmentID, context,
                  genVars, fnVars >>

\* Mutant: a failed start is tried again instead of being returned.
StartSessionRetry(p) ==
  /\ pc[p] = "start"
  /\ Call(p, << "Start" >>)
  /\ \E ok \in BOOLEAN :
       IF ok /\ ~SessIsRunning(sessions, polecatName[p])
       THEN /\ sessions' = SessStart(sessions, polecatName[p])
            /\ Goto(p, "wait")
       ELSE /\ UNCHANGED sessions
            /\ Goto(p, IF Len(calls[p]) < 12 THEN "start" ELSE "wait")
  /\ UNCHANGED << workers, nextCheckout, now, spawns, args, rigName, polecatName,
                  generated, seen, created, beadsInit, issue, assignmentID,
                  running, context,
                  genVars, fnVars >>

\* spawn.go:186-190: session start with default options.
StartSession(p) ==
  /\ pc[p] = "start"
  /\ Call(p, << "Start" >>)
  /\ \E ok \in BOOLEAN :
       IF ok /\ ~SessIsRunning(sessions, polecatName[p])
       THEN /\ sessions' = SessStart(sessions, polecatName[p])
            /\ Goto(p, "wait")
       ELSE /\ UNCHANGED sessions
            /\ Return(p, Error("StartFailed"))
  /\ UNCHANGED << workers, nextCheckout, now, spawns, args, rigName, polecatName,
                  generated, seen, created, beadsInit, issue, assignmentID,
                  running, context,
                  genVars, fnVars >>

\* spawn.go:191-193: fixed warm-up sleep.
WaitInit(p) ==
  /\ pc[p] = "wait"
  /\ Call(p, << "Wait" >>)
  /\ Goto(p, "inject")
  /\ UNCHANGED << shared, args, rigName, polecatName, generated, seen, created,
                  beadsInit, issue, assignmentID, running, context,
                  genVars, fnVars >>

\* spawn.go:196-207: context delivery and the successful return.
InjectContext(p) ==
  /\ pc[p] = "inject"
  /\ context' = [context EXCEPT ![p] =
                   buildSpawnContext(IF issue[p] = NoIssue THEN << >>
                                                           ELSE << issue[p] >>,
                                     args[p].message)]
  /\ Call(p, << "Inject" >>)
  /\ \E ok \in BOOLEAN :
       IF ok /\ SessIsRunning(sessions, polecatName[p])
       THEN Return(p, NoErr)
       ELSE Return(p, Error("InjectFailed"))
  /\ UNCHANGED << shared, args, rigName, polecatName, generated, seen, created,
                  beadsInit, issue, assignmentID, running, genVars, fnVars >>

\* One statement of the invocation p, the worker name being known.
NamedStep(p) ==
  \/ ResolveRig(p)
  \/ GetPolecat(p)
  \/ RemoveStale(p)
  \/ AddPolecat(p)
  \/ InitBeads(p)
  \/ FetchIssue(p)
  \/ AssignIssue(p)
  \/ IsRunning(p)
  \/ StartSession(p)
  \/ WaitInit(p)
  \/ InjectContext(p)

\* One statement of the invocation p.
Step(p) == GenerateName(p) \/ NamedStep(p)

\* Commands run one at a time: the next begins when the last has returned.
SeqBegin == \E a \in SpawnArgs : spawns < MaxSpawns /\ Begin(1, a)

Next == SeqBegin \/ Step(1)

Spec == Init /\ [][Next]_vars

\* Two commands naming the same rig and worker, their statements interleaved.
RaceBegin(p) == \E a \in RaceArgs : pc[p] = "idle" /\ Begin(p, a)

RaceNext == \E p \in Procs : RaceBegin(p) \/ NamedStep(p)

RaceSpec == Init /\ [][RaceNext]_vars

\* ------------------------------------------- generatePolecatName, statement by statement
\* Names an exclusion set may hold: pool names, suffixed pool names and a
\* name given by hand.
GenUniverse ==
  PoolNames \cup {SuffixedName(b, i) : b \in PoolNames, i \in 2..MaxSuffix}
            \cup {<< "furiosa" >>}

\* spawn.go:224-236: the exclusion set is built and the pool shuffled.
GenInit ==
  /\ workers = << >>
  /\ sessions = {}
  /\ nextCheckout = 1
  /\ now = 0
  /\ spawns = 0
  /\ InitLocals
  /\ gpc = "scan"
  /\ existingNames \in SUBSET GenUniverse
  /\ shuffled \in Shuffles
  /\ gk = 1
  /\ gi = 0
  /\ gname = << >>
  /\ FnIdle

\* Mutant: the scan returns the entry without consulting the exclusion set.
GenScanUnchecked ==
  /\ gpc = "scan"
  /\ IF gk <= Len(shuffled)
     THEN /\ gname' = shuffled[gk]
          /\ gpc' = "done"
          /\ UNCHANGED << gk, gi >>
     ELSE /\ gpc' = "probe"
          /\ gi' = 2
          /\ UNCHANGED << gk, gname >>
  /\ UNCHANGED << shared, locals, existingNames, shuffled, fnVars >>

\* spawn.go:238-246: one iteration of the pool scan; when the scan runs out
\* the probe starts at suffix 2.
GenScan ==
  /\ gpc = "scan"
  /\ IF gk <= Len(shuffled)
     THEN IF shuffled[gk] \notin existingNames
          THEN /\ gname' = shuffled[gk]
               /\ gpc' = "done"
               /\ UNCHANGED << gk, gi >>
          ELSE /\ gk' = gk + 1
               /\ UNCHANGED << gpc, gi, gname >>
     ELSE /\ gpc' = "probe"
          /\ gi' = 2
          /\ UNCHANGED << gk, gname >>
  /\ UNCHANGED << shared, locals, existingNames, shuffled, fnVars >>

\* Mutant: the probe loop without its increment.
GenProbeStuck ==
  /\ gpc = "probe"
  /\ IF SuffixedName(shuffled[1], gi) \notin existingNames
     THEN /\ gname' = SuffixedName(shuffled[1], gi)
          /\ gpc' = "done"
          /\ UNCHANGED gi
     ELSE UNCHANGED << gpc, gname, gi >>
  /\ UNCHANGED << shared, locals, existingNames, shuffled, gk, fnVars >>

\* Mutant: the probe made on the last entry of the shuffled pool.
GenProbeLastBase ==
  /\ gpc = "probe"
  /\ IF SuffixedName(shuffled[Len(shuffled)], gi) \notin existingNames
     THEN /\ gname' = SuffixedName(shuffled[Len(shuffled)], gi)
          /\ gpc' = "done"
          /\ UNCHANGED gi
     ELSE /\ gi' = gi + 1
          /\ UNCHANGED << gpc, gname >>
  /\ UNCHANGED << shared, locals, existingNames, shuffled, gk, fnVars >>

\* spawn.go:246-251: one iteration of the suffix probe on the first entry.
GenProbe ==
  /\ gpc = "probe"
  /\ IF SuffixedName(shuffled[1], gi) \notin existingNames
     THEN /\ gname' = SuffixedName(shuffled[1], gi)
          /\ gpc' = "done"
          /\ UNCHANGED gi
     ELSE /\ gi' = gi + 1
          /\ UNCHANGED << gpc, gname >>
  /\ UNCHANGED << shared, locals, existingNames, shuffled, gk, fnVars >>

GenNext == GenScan \/ GenProbe

GenSpec == GenInit /\ [][GenNext]_vars

\* The loop body runs whenever it can: the function is not preempted forever.
FairGenSpec == GenSpec /\ WF_vars(GenNext)

\* The statement-level run returns what the function form computes.
GenAgrees ==
  gpc = "done" => gname = generatePolecatName(existingNames, shuffled)

\* ------------------------------------------------------------------- claims
Has(p, op) == \E k \in 1..Len(calls[p]) : calls[p][k] = op

\* The calls of invocation p from its liveness query on.
SessionCalls(p) ==
  IF Has(p, "IsRunning")
  THEN LET k == CHOOSE j \in 1..Len(calls[p]) : calls[p][j] = "IsRunning"
       IN SubSeq(calls[p], k, Len(calls[p]))
  ELSE << >>

\* C1: with the commands run one at a time, a spawn whose existence check
\* finds the worker in Working state has returned WorkerBusy carrying the
\* worker's assignment identifier, has invoked none of Remove, Create and
\* AssignIssue, and the worker's record (state, identifier, checkout) is
\* still the one the check found.
C1_WorkingSpawnRejected ==
  \A p \in Procs :
    seen[p].State = StateWorking =>
      /\ pc[p] = "done"
      /\ err[p] = [kind |-> "WorkerBusy", on |-> seen[p].Issue]
      /\ ~Has(p, "Remove") /\ ~Has(p, "Create") /\ ~Has(p, "Assign")
      /\ MgrExists(workers, polecatName[p])
      /\ workers[polecatName[p]] = seen[p]

\* C1 witness: the second command of a sequence is rejected on a worker that
\* the first command put to work on gt-1.
C1_Witness ==
  /\ spawns = 2
  /\ pc[1] = "done"
  /\ err[1] = [kind |-> "WorkerBusy", on |-> << "gt-1" >>]
  /\ workers[polecatName[1]].Checkout = 1

\* C2: with the commands run one at a time, from the creation of the worker
\* to the assignment the worker is Idle with the checkout this spawn created,
\* which is the newest checkout and not the one the existence check found;
\* once AssignIssue has succeeded the worker is Working, on that checkout,
\* with the identifier of this spawn: the issue id given, or a task id.
C2_FreshThenWorking ==
  \A p \in Procs :
    LET n == polecatName[p] IN
    /\ pc[p] \in {"initBeads", "fetch", "assign"} =>
         /\ MgrExists(workers, n)
         /\ workers[n] = created[p]
         /\ workers[n].State = StateIdle
         /\ workers[n].Checkout = nextCheckout - 1
         /\ workers[n].Checkout # seen[p].Checkout
    /\ (Has(p, "Assign") /\ err[p].kind # "AssignFailed") =>
         /\ MgrExists(workers, n)
         /\ workers[n].State = StateWorking
         /\ workers[n].Checkout = created[p].Checkout
         /\ workers[n].Checkout # seen[p].Checkout
         /\ workers[n].Issue = assignmentID[p]
         /\ IF args[p].issue # << >>
            THEN workers[n].Issue = args[p].issue
            ELSE \E t \in 0..MaxTime : workers[n].Issue = TaskID(t)

\* C2 witness: a spawn given gt-1 replaced an Idle worker and put the new
\* one to work.
C2_Witness ==
  /\ pc[1] = "done"
  /\ err[1] = NoErr
  /\ seen[1].State = StateIdle
  /\ Has(1, "Remove")
  /\ workers[polecatName[1]].State = StateWorking
  /\ workers[polecatName[1]].Issue = << "gt-1" >>

\* C3: in every interleaving of two spawns on the same rig and worker name,
\* no step removes or replaces the record or checkout of a worker that is in
\* Working state: the worker is still known after the step, on the same
\* checkout.
C3_WorkingNeverReplaced ==
  [][\A n \in DOMAIN workers :
       workers[n].State = StateWorking =>
         /\ n \in DOMAIN workers'
         /\ workers'[n].Checkout = workers[n].Checkout]_vars

\* C4: a spawn that created its checkout and then failed at the assignment,
\* at session start or at context injection leaves the worker known, on that
\* checkout and in Idle state (so that the next spawn onto the name replaces
\* it).
C4_FailedSpawnLeavesIdle ==
  \A p \in Procs :
    (/\ pc[p] = "done"
     /\ err[p].kind \in {"AssignFailed", "StartFailed", "InjectFailed"}
     /\ created[p] # NoPolecat) =>
      /\ MgrExists(workers, polecatName[p])
      /\ workers[polecatName[p]].Checkout = created[p].Checkout
      /\ workers[polecatName[p]].State = StateIdle

\* C5: no two distinct workers of the rig are in Working state with the same
\* assignment identifier.
C5_AssignmentOnOneWorker ==
  \A n, m \in DOMAIN workers :
    (n # m /\ workers[n].State = StateWorking /\ workers[m].State = StateWorking)
      => workers[n].Issue # workers[m].Issue

\* C6: a step of an invocation given neither an issue nor a message is its
\* return with MissingAssignment: no external operation has been invoked and
\* the registry, the checkouts and the sessions are as they were.
C6_MissingAssignmentFirst ==
  [][\A p \in Procs :
       (/\ pc'[p] # "idle"
        /\ args'[p].issue = << >>
        /\ args'[p].message = << >>
        /\ << pc[p], calls[p], spawns >> # << pc'[p], calls'[p], spawns' >>) =>
         /\ pc'[p] = "done"
         /\ err'[p] = Error("MissingAssignment")
         /\ calls'[p] = << >>
         /\ UNCHANGED << workers, sessions, nextCheckout, now >>]_vars

\* C6 witness: the second command of a sequence, given neither flag, has
\* returned MissingAssignment while the registry holds a worker.
C6_Witness ==
  /\ spawns = 2
  /\ pc[1] = "done"
  /\ err[1] = Error("MissingAssignment")
  /\ args[1].issue = << >> /\ args[1].message = << >>
  /\ calls[1] = << >>
  /\ DOMAIN workers # {}

\* C7: no step of an invocation given --no-start changes the session
\* registry, and when it returns success the worker it created is in Working
\* state with its assignment identifier and it has made no liveness query,
\* session start, wait or injection.
C7_NoStartSkipsSession ==
  [][\A p \in Procs :
       (args'[p].noStart /\ pc'[p] # "idle" /\ pc[p] # pc'[p]) =>
         /\ sessions' = sessions
         /\ (pc'[p] = "done" /\ err'[p] = NoErr) =>
              /\ Has(p, "Create")'
              /\ Has(p, "Assign")'
              /\ ~Has(p, "IsRunning")' /\ ~Has(p, "Start")'
              /\ ~Has(p, "Wait")' /\ ~Has(p, "Inject")'
              /\ MgrExists(workers', polecatName'[p])
              /\ workers'[polecatName'[p]].State = StateWorking
              /\ workers'[polecatName'[p]].Issue = assignmentID'[p]
              /\ workers'[polecatName'[p]].Checkout = created'[p].Checkout]_vars

\* C7 witness: a spawn with --no-start has returned success on a worker with
\* no session, now Working on gt-1.
C7_Witness ==
  /\ pc[1] = "done"
  /\ err[1] = NoErr
  /\ args[1].noStart
  /\ calls[1][Len(calls[1])] = "Assign"
  /\ workers[polecatName[1]].State = StateWorking
  /\ workers[polecatName[1]].Issue = << "gt-1" >>
  /\ polecatName[1] \notin sessions

\* C8: when an invocation is about to inject or has injected, the session of
\* its worker is running and its session calls before Inject are the single
\* liveness query if that reported running, and the query, one Start and the
\* warm-up wait, in this order, if it reported not running.
C8_StartOrReuseThenInject ==
  \A p \in Procs :
    (pc[p] = "inject" \/ Has(p, "Inject")) =>
      /\ SessIsRunning(sessions, polecatName[p])
      /\ SessionCalls(p) =
           (IF running[p] THEN << "IsRunning" >>
                          ELSE << "IsRunning", "Start", "Wait" >>)
           \o (IF pc[p] = "inject" THEN << >> ELSE << "Inject" >>)

\* C8 witness: a spawn found no session, started one, waited and injected.
C8_Witness ==
  /\ pc[1] = "done"
  /\ err[1] = NoErr
  /\ ~running[1]
  /\ SessionCalls(1) = << "IsRunning", "Start", "Wait", "Inject" >>

C10_GeneratorTerminates ==
  /\ [](gk <= PoolSize + 1 /\ gi <= Cardinality(existingNames) + 2)
  /\ <>(gpc = "done")

\* C10 witness: the probe loop walked past every suffix an exclusion set may
\* hold before it returned.
C10_Witness ==
  /\ gpc = "done"
  /\ gi = MaxSuffix + 1
  /\ gname = SuffixedName(shuffled[1], MaxSuffix + 1)

\* --------------------------------------------------- parseSpawnAddress on its own
\* Tokens an address is made of: the separator and two other characters.
AddrTokens == {"/", "g", "n"}

AddrStrings == UNION {[1..k -> AddrTokens] : k \in 0..MaxAddrLen}

\* args[0] as the command receives it (spawn.go:83).
ParseInit ==
  /\ workers = << >>
  /\ sessions = {}
  /\ nextCheckout = 1
  /\ now = 0
  /\ spawns = 0
  /\ InitLocals
  /\ GenIdle
  /\ ppc = "call"
  /\ paddr \in AddrStrings
  /\ pres = [rigName |-> << >>, polecatName |-> << >>, err |-> "nil"]
  /\ CtxIdle

\* spawn.go:211-220: the call and its return.
ParseCall ==
  /\ ppc = "call"
  /\ pres' = parseSpawnAddress(paddr)
  /\ ppc' = "done"
  /\ UNCHANGED << shared, locals, genVars, paddr, ctxVars >>

ParseNext == ParseCall

ParseSpec == ParseInit /\ [][ParseNext]_vars

\* C11: the parser's result for an address with a separator is the text before
\* the first separator as rig and all the text after it as worker, or
\* InvalidAddress when nothing precedes the separator; for an address without
\* a separator it is the whole address as rig and no worker name. The call
\* changes nothing else.
C11_ParserSplitsAtFirstSeparator ==
  ppc = "done" =>
    /\ IF \E k \in 1..Len(paddr) : paddr[k] = "/"
       THEN IF paddr[1] = "/"
            THEN pres.err = "InvalidAddress"
            ELSE /\ pres.err = "nil"
                 /\ pres.rigName # << >>
                 /\ \A k \in 1..Len(pres.rigName) : pres.rigName[k] # "/"
                 /\ pres.rigName \o << "/" >> \o pres.polecatName = paddr
       ELSE /\ pres.err = "nil"
            /\ pres.rigName = paddr
            /\ pres.polecatName = << >>
    /\ workers = << >> /\ sessions = {} /\ nextCheckout = 1
    /\ \A p \in Procs : pc[p] = "idle" /\ calls[p] = << >>

\* C11 witness: an address with two separators was parsed; the second one is
\* in the worker part.
C11_Witness ==
  /\ ppc = "done"
  /\ pres.err = "nil"
  /\ pres.rigName = << "g" >>
  /\ pres.polecatName = << "/", "n" >>

\* --------------------------------------------------- buildSpawnContext on its own
\* Issues the builder is given: none, or a record with or without a
\* description.
CtxIssues ==
  {<< >>} \cup
  { << [ID |-> << "gt-1" >>, Title |-> t, Description |-> d,
        Priority |-> pr, Type |-> ty] >> :
      t \in {<< "Fix" >>, << "Fix", " ", "X" >>},
      d \in {<< >>, << "text" >>},
      pr \in {0 - 1, 0, 2, 10},
      ty \in {<< "bug" >>, << "task" >>} }

\* The (issue, message) pair buildSpawnContext is called with (spawn.go:197).
CtxInit ==
  /\ workers = << >>
  /\ sessions = {}
  /\ nextCheckout = 1
  /\ now = 0
  /\ spawns = 0
  /\ InitLocals
  /\ GenIdle
  /\ ParseIdle
  /\ cpc = "call"
  /\ cissue \in CtxIssues
  /\ cmessage \in Messages \cup {<< >>}
  /\ ctext = << >>

\* spawn.go:303-323: the call and its return.
CtxCall ==
  /\ cpc = "call"
  /\ ctext' = buildSpawnContext(cissue, cmessage)
  /\ cpc' = "done"
  /\ UNCHANGED << shared, locals, genVars, parseVars, cissue, cmessage >>

CtxNext == CtxCall

CtxSpec == CtxInit /\ [][CtxNext]_vars

\* A line of the context: a label, its text, a line end.
CtxLine(label, text) == << label >> \o text \o << "\n" >>

\* The priority label of priority n.
PriorityLabel(n) ==
  IF n = 0 - 1 THEN << "-", "1" >>
  ELSE IF n = 0 THEN << "0" >>
  ELSE IF n = 2 THEN << "2" >>
  ELSE << "1", "0" >>

\* C12: the text built is the banner line and an empty line; then for an issue
\* the lines Issue, Title, Priority P<priority> and Type, and the description
\* block only if the description is not empty; else for a message the single
\* Task line; else nothing; and last the empty line and the closing line.
C12_ContextStructure ==
  cpc = "done" =>
    LET body ==
          IF cissue # << >>
          THEN CtxLine("Issue: ", cissue[1].ID)
               \o CtxLine("Title: ", cissue[1].Title)
               \o CtxLine("Priority: P", PriorityLabel(cissue[1].Priority))
               \o CtxLine("Type: ", cissue[1].Type)
               \o (IF cissue[1].Description = << >>
                   THEN << >>
                   ELSE << "\n" >> \o CtxLine("Description:", << "\n" >> \o cissue[1].Description))
          ELSE IF cmessage # << >>
          THEN CtxLine("Task: ", cmessage)
          ELSE << >>
    IN /\ ctext = << "[SPAWN] You have been assigned work.", "\n", "\n" >>
                  \o body
                  \o << "\n",
                        "Work on this task. When complete, commit your changes and signal DONE.",
                        "\n" >>
       /\ (cissue = << >> /\ cmessage = << >>) => Len(ctext) = 6

\* C12 witness: an issue without a description was rendered together with a
\* message; the text has the four issue lines and no Task line.
C12_Witness ==
  /\ cpc = "done"
  /\ cissue # << >>
  /\ cissue[1].Description = << >>
  /\ cissue[1].Priority = 10
  /\ cmessage # << >>
  /\ \A k \in 1..Len(ctext) : ctext[k] \notin {"Task: ", "Description:"}
  /\ \E k \in 1..Len(ctext) : ctext[k] = "Priority: P" /\ ctext[k + 1] = "1" /\ ctext[k + 2] = "0"

\* The place of the operation op among the calls of invocation p (0: none).
Pos(p, op) ==
  IF Has(p, op)
  THEN CHOOSE k \in 1..Len(calls[p]) :
         calls[p][k] = op /\ \A j \in 1..(k - 1) : calls[p][j] # op
  ELSE 0

\* C13: when two interleaved spawns on the same rig and worker name have both
\* found the worker in Idle state at their existence checks, neither has been
\* refused as WorkerBusy and each goes on to the replacement: its next
\* statement is Remove or it has invoked Remove, and a Create it has invoked
\* came after its Remove. Nothing makes the second wait for the first.
C13_BothObserveIdleBothReplace ==
  (\A p \in Procs : seen[p].State = StateIdle) =>
    \A p \in Procs :
      /\ err[p].kind # "WorkerBusy"
      /\ pc[p] = "remove" \/ Has(p, "Remove")
      /\ Has(p, "Create") => Pos(p, "Remove") = Pos(p, "Create") - 1

\* C13 witness: both spawns found the same Idle worker (checkout 0) and both
\* have invoked Remove and then Create on the name.
C13_Witness ==
  /\ \A p \in Procs :
       /\ seen[p] = [State |-> StateIdle, Issue |-> << >>, Checkout |-> 0]
       /\ Has(p, "Remove")
       /\ Has(p, "Create")
  /\ polecatName[1] = polecatName[2]
  /\ rigName[1] = rigName[2]
  /\ nextCheckout = 3

\* The external operations of runSpawn in the order of its statements.
OpOrder ==
  << "FindWorkspace", "GetRig", "List", "Get", "Remove", "Create", "InitBeads",
     "Fetch", "Assign", "IsRunning", "Start", "Wait", "Inject" >>

Rank(op) == CHOOSE k \in 1..Len(OpOrder) : OpOrder[k] = op

\* The worker of invocation p is the one p created, at work on p's
\* assignment.
AtWorkForSpawn(p) ==
  /\ MgrExists(workers, polecatName[p])
  /\ workers[polecatName[p]].Checkout = created[p].Checkout
  /\ workers[polecatName[p]].State = StateWorking
  /\ workers[polecatName[p]].Issue = assignmentID[p]

\* C14: with the commands run one at a time, the operations a spawn has
\* invoked follow the order of OpOrder, after a successful address parse: the
\* name is generated (List) exactly when the address has no name; the issue
\* is fetched, after Create and before Assign, exactly when an id was given;
\* the session steps follow Assign and Inject follows the context build.
\* When Inject is about to be or has been invoked, and when Start has been
\* invoked, the worker exists on the checkout this spawn created, Working
\* with this spawn's assignment identifier.
C14_FixedStepOrder ==
  \A p \in Procs :
    LET r == parseSpawnAddress(args[p].addr) IN
    /\ \A j, k \in 1..Len(calls[p]) :
         j < k => Rank(calls[p][j]) < Rank(calls[p][k])
    /\ calls[p] # << >> => r.err = "nil" /\ rigName[p] = r.rigName
    /\ Has(p, "List") <=> generated[p]
    /\ generated[p] => r.polecatName = << >>
    /\ (Has(p, "Get") /\ ~generated[p]) =>
         r.polecatName # << >> /\ polecatName[p] = r.polecatName
    /\ Has(p, "Create") => Has(p, "Get")
    /\ Has(p, "Fetch") => Has(p, "Create") /\ args[p].issue # << >>
    /\ Has(p, "Assign") =>
         /\ Has(p, "Create")
         /\ args[p].issue # << >> <=> Has(p, "Fetch")
         /\ args[p].issue # << >> => issue[p].ID = args[p].issue
    /\ Has(p, "IsRunning") => Has(p, "Assign")
    /\ Has(p, "Start") => Has(p, "IsRunning") /\ AtWorkForSpawn(p)
    /\ pc[p] = "inject" => Has(p, "IsRunning") /\ AtWorkForSpawn(p)
    /\ Has(p, "Inject") =>
         /\ Has(p, "IsRunning")
         /\ AtWorkForSpawn(p)
         /\ context[p] = buildSpawnContext(IF Has(p, "Fetch") THEN << issue[p] >>
                                                              ELSE << >>,
                                           args[p].message)
    /\ context[p] # << >> <=> Has(p, "Inject")

\* C14 witness: a spawn with no name in the address and an issue id has gone
\* through every step, the session being started, and has returned.
C14_Witness ==
  /\ pc[1] = "done"
  /\ err[1] = NoErr
  /\ args[1].addr = TheRig
  /\ calls[1] = << "FindWorkspace", "GetRig", "List", "Get", "Create",
                   "InitBeads", "Fetch", "Assign", "IsRunning", "Start",
                   "Wait", "Inject" >>
  /\ AtWorkForSpawn(1)
  /\ workers[polecatName[1]].Issue = << "gt-1" >>

\* The number of times invocation p has invoked op.
Count(p, op) == Cardinality({k \in 1..Len(calls[p]) : calls[p][k] = op})

LastCall(p) == IF calls[p] = << >> THEN "none" ELSE calls[p][Len(calls[p])]

\* The operations whose failure ends the spawn, and the error of each.
FatalOps == {"Remove", "Create", "Fetch", "Assign", "Start", "Inject"}

FailureKinds(op) ==
  IF op = "Remove" THEN {"RemoveFailed"}
  ELSE IF op = "Create" THEN {"CreateFailed"}
  ELSE IF op = "Fetch" THEN {"IssueFetchFailed", "IssueParseFailed", "IssueNotFound"}
  ELSE IF op = "Assign" THEN {"AssignFailed"}
  ELSE IF op = "Start" THEN {"StartFailed"}
  ELSE {"InjectFailed"}

\* Invocation p has invoked op and gone on to its next statement.
Passed(p, op) == Has(p, op) /\ ~(pc[p] = "done" /\ LastCall(p) = op)

\* C15: within one spawn every external operation is invoked at most once. A
\* spawn that holds the error of one of Remove, Create, the issue fetch,
\* AssignIssue, Start and Inject has returned and that operation is the last
\* it invoked; an operation after which the spawn went on had succeeded
\* (the worker was created, the issue found, the worker put to work, the
\* session started), so that Inject never follows a failed Start; and a spawn
\* that returned right after Remove, Create, the fetch or Start returned that
\* operation's error.
C15_NoRetryAbortAtOnce ==
  \A p \in Procs :
    /\ \A k \in 1..Len(OpOrder) : Count(p, OpOrder[k]) <= 1
    /\ \A op \in FatalOps :
         /\ err[p].kind \in FailureKinds(op) =>
              pc[p] = "done" /\ LastCall(p) = op
         /\ (pc[p] = "done" /\ LastCall(p) = op
               /\ op \in {"Remove", "Create", "Fetch", "Start"}) =>
              err[p].kind \in FailureKinds(op)
    /\ Passed(p, "Remove") =>
         pc[p] = "add" \/ Pos(p, "Create") = Pos(p, "Remove") + 1
    /\ Passed(p, "Create") <=> created[p] # NoPolecat
    /\ Passed(p, "Fetch") => issue[p] # NoIssue
    /\ Passed(p, "Assign") => workers[polecatName[p]].State = StateWorking
    /\ Passed(p, "Start") => SessIsRunning(sessions, polecatName[p])
    /\ Has(p, "Inject") =>
         /\ LastCall(p) = "Inject"
         /\ pc[p] = "done"
         /\ SessIsRunning(sessions, polecatName[p])

\* C15 witness: Start failed; the spawn has returned StartFailed with Start
\* its last operation, Inject not invoked.
C15_Witness ==
  /\ pc[1] = "done"
  /\ err[1] = Error("StartFailed")
  /\ calls[1] = << "FindWorkspace", "GetRig", "Get", "Remove", "Create",
                   "InitBeads", "Assign", "IsRunning", "Start" >>
  /\ ~SessIsRunning(sessions, polecatName[1])

\* C16: a spawn given an issue id whose fetch found no issue (the run failed,
\* the payload did not parse, or the array was empty) has returned with the
\* error of that failure right after the fetch: AssignIssue, the liveness
\* query, Start and Inject are not invoked, and the worker this spawn created
\* is still known, on this spawn's checkout, Idle and with no assignment
\* identifier.
C16_FetchFailureLeavesIdle ==
  \A p \in Procs :
    (Has(p, "Fetch") /\ issue[p] = NoIssue) =>
      /\ args[p].issue # << >>
      /\ pc[p] = "done"
      /\ err[p].kind \in {"IssueFetchFailed", "IssueParseFailed", "IssueNotFound"}
      /\ LastCall(p) = "Fetch"
      /\ ~Has(p, "Assign") /\ ~Has(p, "IsRunning")
      /\ ~Has(p, "Start") /\ ~Has(p, "Inject")
      /\ created[p] # NoPolecat
      /\ MgrExists(workers, polecatName[p])
      /\ workers[polecatName[p]] = created[p]
      /\ workers[polecatName[p]].State = StateIdle
      /\ workers[polecatName[p]].Issue = << >>

\* C16 witness: bd show printed an empty array for gt-1; the spawn, which had
\* replaced an Idle worker, returned IssueNotFound and the new worker is Idle.
C16_Witness ==
  /\ pc[1] = "done"
  /\ err[1] = Error("IssueNotFound")
  /\ args[1].issue = << "gt-1" >>
  /\ Has(1, "Remove")
  /\ workers[polecatName[1]] =
       [State |-> StateIdle, Issue |-> << >>, Checkout |-> 1]

\* A spawn whose tracker initialisation failed and which returned nil ended
\* as one whose initialisation succeeded: the worker on the new checkout is
\* Working with the spawn's identifier and, unless --no-start was given, the
\* session steps ran up to Inject.
InitBeadsFailureTransparent(p) ==
  /\ beadsInit[p] = "failed" => Passed(p, "InitBeads")
  /\ (beadsInit[p] = "failed" /\ pc[p] = "done" /\ err[p] = NoErr) =>
       /\ AtWorkForSpawn(p)
       /\ IF args[p].noStart
          THEN LastCall(p) = "Assign"
          ELSE LastCall(p) = "Inject" /\ SessIsRunning(sessions, polecatName[p])

\* C17: the tracker initialisation is the only operation whose failure does
\* not end the spawn. A step that fails the initialisation goes on to the
\* fetch or the assignment, and the spawn ends as it would have otherwise;
\* a step of any other operation that does not return has not failed: the
\* name generated is not one List would have reported, and the liveness
\* answer is the state of the session.
C17_OnlyInitBeadsNonFatal ==
  [][\A p \in Procs :
       /\ InitBeadsFailureTransparent(p)
       /\ (pc[p] = "initBeads" /\ beadsInit'[p] = "failed") =>
            pc'[p] = AfterInit(args[p]) /\ err'[p] = NoErr
       /\ (pc[p] = "generate" /\ pc'[p] # "done" /\ pc'[p] # "generate") =>
            polecatName'[p] \notin MgrList(workers)
       /\ (pc[p] = "isRunning" /\ pc'[p] # "done" /\ pc'[p] # "isRunning") =>
            running'[p] = SessIsRunning(sessions, polecatName[p])]_vars

\* What of C17 holds: a failed initialisation does not end the spawn and
\* does not change how it ends.
C17_InitBeadsNonFatal ==
  [][\A p \in Procs :
       /\ InitBeadsFailureTransparent(p)
       /\ (pc[p] = "initBeads" /\ beadsInit'[p] = "failed") =>
            pc'[p] = AfterInit(args[p]) /\ err'[p] = NoErr]_vars

\* The pool names not in the exclusion set, as places of the shuffle order.
UnusedPlaces == {k \in 1..PoolSize : shuffled[k] \notin existingNames}

\* C18: the name returned is the first pool name in shuffle order that is not
\* in the exclusion set, if there is one; otherwise it is the first name of
\* the shuffle order followed by the digits of the smallest k >= 2 for which
\* that name is not in the exclusion set.
C18_GeneratorResult ==
  gpc = "done" =>
    IF UnusedPlaces # {}
    THEN \E k \in UnusedPlaces :
           /\ gname = shuffled[k]
           /\ \A j \in UnusedPlaces : k <= j
    ELSE \E k \in 2..(MaxSuffix + 1) :
           /\ gname = shuffled[1] \o Itoa(k)
           /\ gname \notin existingNames
           /\ \A j \in 2..(k - 1) : shuffled[1] \o Itoa(j) \in existingNames

\* C18 witness: every pool name is taken, the shuffle put the second pool
\* name first, its suffix 2 is taken too, and the name returned carries 3.
C18_Witness ==
  /\ gpc = "done"
  /\ shuffled[1] = Pool[2]
  /\ PoolNames \subseteq existingNames
  /\ SuffixedName(Pool[2], 2) \in existingNames
  /\ gname = Pool[2] \o << "3" >>

\* C19: a spawn whose worker name was generated finds the name Absent at its
\* existence check: it is not refused as WorkerBusy and does not invoke
\* Remove; the worker it creates is the first of that name.
C19_GeneratedNameIsNew ==
  \A p \in Procs :
    generated[p] =>
      /\ seen[p] = NoPolecat
      /\ err[p].kind # "WorkerBusy"
      /\ ~Has(p, "Remove")
      /\ pc[p] = "get" => ~MgrExists(workers, polecatName[p])

\* C20: a spawn that found the worker Idle, removed it and did not get a new
\* one from Create has returned an error with Create its last operation; the
\* name is unknown to the registry (neither the old record nor a new one),
\* and AssignIssue, the session operations and Inject are not invoked.
C20_CreateFailureLeavesAbsent ==
  \A p \in Procs :
    (/\ seen[p].State = StateIdle
     /\ Passed(p, "Remove")
     /\ Has(p, "Create")
     /\ created[p] = NoPolecat) =>
      /\ pc[p] = "done"
      /\ err[p] = Error("CreateFailed")
      /\ LastCall(p) = "Create"
      /\ ~MgrExists(workers, polecatName[p])
      /\ ~Has(p, "InitBeads") /\ ~Has(p, "Fetch") /\ ~Has(p, "Assign")
      /\ ~Has(p, "IsRunning") /\ ~Has(p, "Start") /\ ~Has(p, "Inject")

\* C20 witness: the Idle worker on checkout 0 was removed, Create failed,
\* and the registry is empty: no checkout was handed out.
C20_Witness ==
  /\ pc[1] = "done"
  /\ err[1] = Error("CreateFailed")
  /\ seen[1] = [State |-> StateIdle, Issue |-> << >>, Checkout |-> 0]
  /\ calls[1] = << "FindWorkspace", "GetRig", "Get", "Remove", "Create" >>
  /\ workers = << >>
  /\ nextCheckout = 1

====
